---- MODULE Spec2Model ----
(***************************************************************************)
(* Model of two of the analysis scripts of the repository (question4.py,   *)
(* a scatter plot with per-location regression lines, is not modelled):     *)
(*   question3.py  AdultDataAnalyzer: load, clean and chart a CSV table    *)
(*   Question2.py  seeded step-count generator and its descriptive report  *)
(* The module holds three specifications over one set of variables:        *)
(*   Spec       main() of question3.py, from the file on disk to the       *)
(*              shown figure                                               *)
(*   SpecClean  the two cleaning steps of question3.py applied repeatedly  *)
(*              to a table                                                 *)
(*   SpecSteps  Question2.py run twice from the same seed                  *)
(* Variables a specification does not use keep their initial value.        *)
(***************************************************************************)
EXTENDS Integers, Sequences, FiniteSets, TLC

VARIABLES
    \* ---- question3.py ----
    file,            \* adult.csv on disk: [status, table]
    pc,              \* position of main() / of the running script
    data,            \* AdultDataAnalyzer.data
    column_mapping,  \* AdultDataAnalyzer.column_mapping
    log,             \* lines printed on the console, in order
    report,          \* counts printed by the two cleaning steps
    title,           \* title set on each of the four axes
    order,           \* renderers invoked so far, in order
    agg,             \* the aggregation each renderer computed
    cleaned,         \* the table as load_and_clean_data returned it
    load_calls,      \* number of calls of load_and_clean_data
    passes,          \* SpecClean: completed cleaning passes
    prev,            \* SpecClean: the table when the current pass began
    \* ---- Question2.py ----
    stream,          \* the draws the seeded generator yields, in order
    rng,             \* number of draws consumed from the global generator
    run,             \* which run of the script is executing
    fitness_levels,  \* fitness_levels array
    step_counts,     \* step_counts matrix
    i,               \* loop index of the generation loop
    highest_participant, \* list printed for the highest median
    lowest_participant,  \* list printed for the lowest median
    outputs          \* what each finished run printed

q3vars == <<file, pc, data, column_mapping, log, report, title, order, agg,
            cleaned, load_calls, passes, prev>>
q2vars == <<stream, rng, run, fitness_levels, step_counts, i,
            highest_participant, lowest_participant, outputs>>
q3vars_but_pc == <<file, data, column_mapping, log, report, title, order,
                   agg, cleaned, load_calls, passes, prev>>
vars == <<q3vars, q2vars>>

(***************************************************************************)
(* Bounds of the model.                                                    *)
(***************************************************************************)
MaxRows == 3         \* rows of the CSV table
MaxPasses == 2       \* cleaning passes applied in SpecClean
num_participants == 2  \* participants of Question2.py (15 in the script)
num_days == 2          \* days of Question2.py (14 in the script)

(***************************************************************************)
(* Generic helpers.                                                        *)
(***************************************************************************)
Range(s) == {s[k] : k \in DOMAIN s}

RECURSIVE SumSeq(_)
SumSeq(s) == IF s = <<>> THEN 0 ELSE Head(s) + SumSeq(Tail(s))

RECURSIVE Insert(_, _)
Insert(x, s) ==
    IF s = <<>> THEN <<x>>
    ELSE IF x <= Head(s) THEN <<x>> \o s
    ELSE <<Head(s)>> \o Insert(x, Tail(s))

RECURSIVE Sort(_)
Sort(s) == IF s = <<>> THEN <<>> ELSE Insert(Head(s), Sort(Tail(s)))

(***************************************************************************)
(* Cells of a table.  An object (string) column holds strings; a missing   *)
(* object cell (NaN from an empty CSV field, pd.NA after the replace) is   *)
(* NA.  A numeric column holds naturals in HALF units (the cell 50 is the  *)
(* number 25.0), so that the median of an even number of whole values is   *)
(* exact; a missing numeric cell is NaN.                                   *)
(***************************************************************************)
NA == "<NA>"
QMark == "?"
NaN == -1
Num(n) == 2 * n

IsNA(c) == c = NA
IsNaN(c) == c = NaN

\* Python's string order (code points) on the strings the model uses.
Lexicographic ==
    <<"<=50K", ">50K", "?", "Female", "Male", "Sales", "Tech-support",
      "mid", "old">>
Rank(s) == CHOOSE k \in DOMAIN Lexicographic : Lexicographic[k] = s

(***************************************************************************)
(* A table (pandas DataFrame): column headers, the dtype of each column    *)
(* ("object", "number", or "category" for the derived age_group column)    *)
(* and the rows, each a sequence of cells aligned with the headers.        *)
(***************************************************************************)
NoData == [columns |-> <<>>, dtypes |-> <<>>, rows |-> <<>>]

ColIndex(t, name) == CHOOSE j \in DOMAIN t.columns : t.columns[j] = name
HasColumn(t, name) == \E j \in DOMAIN t.columns : t.columns[j] = name
Column(t, j) == [r \in DOMAIN t.rows |-> t.rows[r][j]]

\* isna() of a cell of column j.
Missing(t, j, c) == IF t.dtypes[j] = "number" THEN IsNaN(c) ELSE IsNA(c)

\* self.data[col].fillna(value, inplace=True) on column j: the missing cells
\* of the column of self.data take the value.
FillColumn(t, j, value) ==
    [t EXCEPT !.rows =
        [r \in DOMAIN t.rows |->
            [t.rows[r] EXCEPT ![j] = IF Missing(t, j, @) THEN value ELSE @]]]

(***************************************************************************)
(* standardize_column_names / get_column_name                              *)
(***************************************************************************)
possible_names ==
    [hours_per_week |-> <<"hours-per-week", "hours_per_week",
                          "hours.per.week", "hrs_per_week">>,
     education_num  |-> <<"education-num", "education_num", "education.num">>,
     marital_status |-> <<"marital-status", "marital_status", "marital.status">>,
     capital_gain   |-> <<"capital-gain", "capital_gain", "capital.gain">>,
     capital_loss   |-> <<"capital-loss", "capital_loss", "capital.loss">>,
     native_country |-> <<"native-country", "native_country", "native.country">>]

AllVariants == UNION {Range(possible_names[s]) : s \in DOMAIN possible_names}

\* A variant of FirstPresentVariant without the membership test of the
\* loop: the first variant of the list, present or not.
FirstVariantUnchecked(variants, cols) == variants[1]

\* The first variant, in list order, that is a header of the table.
FirstPresentVariant(variants, cols) ==
    variants[CHOOSE k \in DOMAIN variants :
                /\ variants[k] \in cols
                /\ \A m \in 1..(k - 1) : variants[m] \notin cols]

\* The mapping standardize_column_names builds from the headers: the first
\* loop maps each standardized name to the first of its variants present,
\* the second maps every header that is no variant to itself (and, running
\* second, would win on a shared key).
StandardizeColumnNames(current_columns) ==
    LET cols == Range(current_columns)
        found == {s \in DOMAIN possible_names :
                     \E k \in DOMAIN possible_names[s] :
                         possible_names[s][k] \in cols}
        kept == {c \in cols : c \notin AllVariants}
    IN  [name \in found \union kept |->
            IF name \in kept THEN name
            ELSE FirstPresentVariant(possible_names[name], cols)]

\* dict.get(standard_name, standard_name)
GetColumnName(mapping, standard_name) ==
    IF standard_name \in DOMAIN mapping THEN mapping[standard_name]
    ELSE standard_name

(***************************************************************************)
(* _handle_missing_values                                                  *)
(***************************************************************************)
\* (self.data == '?').sum().sum(): a numeric cell never equals the string.
MissingBefore(t) ==
    SumSeq([r \in DOMAIN t.rows |->
        Cardinality({j \in DOMAIN t.columns :
            t.dtypes[j] = "object" /\ t.rows[r][j] = QMark})])

\* self.data.replace('?', pd.NA, inplace=True)
ReplaceQMark(t) ==
    [t EXCEPT !.rows =
        [r \in DOMAIN t.rows |->
            [j \in DOMAIN t.columns |->
                IF t.dtypes[j] = "object" /\ t.rows[r][j] = QMark
                THEN NA ELSE t.rows[r][j]]]]

\* Series.mode()[0]: the most frequent non-missing value, the smallest in
\* sort order when several tie.  Defined when some value is present.
Mode(col) ==
    LET present == {col[r] : r \in {r \in DOMAIN col : ~IsNA(col[r])}}
        freq(v) == Cardinality({r \in DOMAIN col : col[r] = v})
        best == {v \in present : \A w \in present : freq(w) <= freq(v)}
    IN  CHOOSE v \in best : \A w \in best : Rank(v) <= Rank(w)

\* Series.median(): missing cells skipped; the middle value, or the mean of
\* the two middle values; NaN when no value is present.
Median(col) ==
    LET present == Sort(SelectSeq(col, LAMBDA c : ~IsNaN(c)))
        n == Len(present)
    IN  IF n = 0 THEN NaN
        ELSE IF n % 2 = 1 THEN present[(n + 1) \div 2]
        ELSE (present[n \div 2] + present[n \div 2 + 1]) \div 2

\* The loop over the object columns, from column j on.  mode() of a column
\* with no value present is empty and mode()[0] raises; the columns before
\* it stay imputed, since the table is changed in place.
RECURSIVE ImputeCategorical(_, _, _)
ImputeCategorical(t, j, imputed) ==
    IF j > Len(t.columns)
    THEN [raised |-> FALSE, data |-> t, imputed |-> imputed]
    ELSE IF \/ t.dtypes[j] # "object"
            \/ ~\E r \in DOMAIN t.rows : IsNA(t.rows[r][j])
    THEN ImputeCategorical(t, j + 1, imputed)
    ELSE IF \A r \in DOMAIN t.rows : IsNA(t.rows[r][j])
    THEN [raised |-> TRUE, data |-> t, imputed |-> imputed]
    ELSE ImputeCategorical(FillColumn(t, j, Mode(Column(t, j))),
                           j + 1, Append(imputed, t.columns[j]))

\* The loop over the numeric columns, from column j on.
RECURSIVE ImputeNumerical(_, _, _)
ImputeNumerical(t, j, imputed) ==
    IF j > Len(t.columns)
    THEN [raised |-> FALSE, data |-> t, imputed |-> imputed]
    ELSE IF \/ t.dtypes[j] # "number"
            \/ ~\E r \in DOMAIN t.rows : IsNaN(t.rows[r][j])
    THEN ImputeNumerical(t, j + 1, imputed)
    ELSE ImputeNumerical(FillColumn(t, j, Median(Column(t, j))),
                         j + 1, Append(imputed, t.columns[j]))

\* The whole method: what it leaves in self.data, whether it raised, the
\* count it prints first and the columns it prints as imputed.
HandleMissingValues(t) ==
    LET cat == ImputeCategorical(ReplaceQMark(t), 1, <<>>)
        num == ImputeNumerical(cat.data, 1, cat.imputed)
    IN  IF cat.raised
        THEN [raised |-> TRUE, data |-> cat.data,
              missing_before |-> MissingBefore(t), imputed |-> cat.imputed]
        ELSE [raised |-> FALSE, data |-> num.data,
              missing_before |-> MissingBefore(t), imputed |-> num.imputed]

(***************************************************************************)
(* _remove_duplicates                                                      *)
(***************************************************************************)
\* DataFrame.duplicated(): a row equal to an earlier row (missing cells
\* compare equal to each other).
Duplicated(t, r) == \E q \in 1..(r - 1) : t.rows[q] = t.rows[r]

DuplicatedCount(t) == Cardinality({r \in DOMAIN t.rows : Duplicated(t, r)})

\* DataFrame.drop_duplicates(inplace=True): the first of equal rows is kept.
DropDuplicates(t) ==
    LET kept == SelectSeq([r \in DOMAIN t.rows |-> r],
                          LAMBDA r : ~Duplicated(t, r))
    IN  [t EXCEPT !.rows = [k \in DOMAIN kept |-> t.rows[kept[k]]]]

(***************************************************************************)
(* The CSV files the model reads.  A file is missing, unparsable, or holds *)
(* a table: one of the header rows below over up to MaxRows of the sample  *)
(* records.  Numeric fields are empty or whole numbers (read as a numeric  *)
(* column), the other fields are strings, '?' or empty (an object column). *)
(***************************************************************************)
Schemas ==
    << <<"age", "sex", "occupation", "education-num", "hours-per-week", "income">>,
       <<"age", "sex", "occupation", "education_num", "hours_per_week", "income">>,
       <<"age", "sex", "occupation", "education.num", "hours.per.week", "income">>,
       <<"age", "occupation", "education-num", "hrs_per_week", "income">>,
       <<"age", "age_group", "sex", "occupation", "education-num",
         "hours-per-week", "income">>,
       <<"sex", "income", "hours_per_week", "hours-per-week", "fnlwgt">> >>

SampleRecords ==
    << [age |-> Num(25), sex |-> "Male", income |-> "<=50K",
        occupation |-> "Sales", education_num |-> Num(9),
        hours_per_week |-> Num(40), age_group |-> "mid", fnlwgt |-> Num(7)],
       [age |-> NaN, sex |-> QMark, income |-> "<=50K",
        occupation |-> "Sales", education_num |-> Num(9),
        hours_per_week |-> Num(40), age_group |-> "mid", fnlwgt |-> Num(7)],
       [age |-> Num(40), sex |-> "Female", income |-> ">50K",
        occupation |-> "Tech-support", education_num |-> Num(13),
        hours_per_week |-> NaN, age_group |-> "old", fnlwgt |-> NaN],
       [age |-> Num(52), sex |-> "Female", income |-> ">50K",
        occupation |-> QMark, education_num |-> NaN,
        hours_per_week |-> Num(50), age_group |-> NA, fnlwgt |-> Num(7)] >>

NumericFields == {"age", "education_num", "hours_per_week", "fnlwgt"}

\* The field of the sample records a header names.
FieldOf(header) ==
    IF header \in AllVariants
    THEN CHOOSE s \in DOMAIN possible_names : header \in Range(possible_names[s])
    ELSE header

\* pd.read_csv on a readable file.  The dtype of a column is inferred from
\* its cells: numeric when every cell is a number or empty (so a column of
\* empty cells only is numeric, all NaN), object otherwise, and object for
\* every column of a table without rows.
ReadDtype(schema, recs, j) ==
    LET field == FieldOf(schema[j])
    IN  IF recs = <<>> THEN "object"
        ELSE IF field \in NumericFields THEN "number"
        ELSE IF \A r \in DOMAIN recs : SampleRecords[recs[r]][field] = NA
        THEN "number"
        ELSE "object"

ReadTable(schema, recs) ==
    [columns |-> schema,
     dtypes  |-> [j \in DOMAIN schema |-> ReadDtype(schema, recs, j)],
     rows    |-> [r \in DOMAIN recs |->
                    [j \in DOMAIN schema |->
                        LET cell == SampleRecords[recs[r]][FieldOf(schema[j])]
                        IN  IF FieldOf(schema[j]) \notin NumericFields
                               /\ ReadDtype(schema, recs, j) = "number"
                            THEN NaN ELSE cell]]]

Tables ==
    {ReadTable(Schemas[s], recs) :
        s \in DOMAIN Schemas,
        recs \in UNION {[1..n -> DOMAIN SampleRecords] : n \in 0..MaxRows}}

Files ==
    {[status |-> "missing", table |-> NoData],
     [status |-> "corrupt", table |-> NoData]}
    \union {[status |-> "ok", table |-> t] : t \in Tables}

(***************************************************************************)
(* The aggregation each renderer computes from self.data.  A mean is kept  *)
(* as the pair <<sum, count>> over the cells present.  groupby drops the   *)
(* rows whose key is missing.                                              *)
(***************************************************************************)
GroupRows(t, a, b, key) ==
    SelectSeq([r \in DOMAIN t.rows |-> r],
              LAMBDA r : <<t.rows[r][a], t.rows[r][b]>> = key)

GroupKeys(t, a, b) ==
    {<<t.rows[r][a], t.rows[r][b]>> :
        r \in {q \in DOMAIN t.rows :
                  /\ ~Missing(t, a, t.rows[q][a])
                  /\ ~Missing(t, b, t.rows[q][b])}}

\* groupby([a, b])[v].mean()
GroupMean(t, a, b, v) ==
    [key \in GroupKeys(t, a, b) |->
        LET rs == GroupRows(t, a, b, key)
            present == SelectSeq([k \in DOMAIN rs |-> t.rows[rs[k]][v]],
                                 LAMBDA c : ~IsNaN(c))
        IN  <<SumSeq(present), Len(present)>>]

\* groupby([gender_col, income_col]).size()
StackedBarAgg(t, gender_col, income_col) ==
    LET a == ColIndex(t, gender_col)
        b == ColIndex(t, income_col)
    IN  [key \in GroupKeys(t, a, b) |-> Len(GroupRows(t, a, b, key))]

\* pd.cut(age, bins=range(15, 100, 5), labels=['15-19', ..., '90-94']): the
\* bins are the intervals (15, 20], (20, 25], ..., (90, 95].
AgeLabels ==
    <<"15-19", "20-24", "25-29", "30-34", "35-39", "40-44", "45-49", "50-54",
      "55-59", "60-64", "65-69", "70-74", "75-79", "80-84", "85-89", "90-94">>

Cut(age) ==
    IF IsNaN(age) \/ age <= Num(15) \/ age > Num(95) THEN NA
    ELSE AgeLabels[CHOOSE k \in DOMAIN AgeLabels :
                      Num(15 + 5 * (k - 1)) < age /\ age <= Num(15 + 5 * k)]

\* A variant of SetAgeGroup that also bins the age column itself in place,
\* rounding each age down to a multiple of five.
SetAgeGroupInPlace(t, age_col) ==
    LET a == ColIndex(t, age_col)
        binned == [t EXCEPT !.rows =
                    [r \in DOMAIN t.rows |->
                        [t.rows[r] EXCEPT ![a] =
                            IF IsNaN(@) THEN @ ELSE @ - (@ % Num(5))]]]
    IN  [columns |-> Append(binned.columns, "age_group"),
         dtypes  |-> Append(binned.dtypes, "category"),
         rows    |-> [r \in DOMAIN t.rows |->
                        Append(binned.rows[r], Cut(t.rows[r][a]))]]

\* self.data['age_group'] = pd.cut(self.data[age_col], ...): the column is
\* added at the end, or replaces the column of that name.
SetAgeGroup(t, age_col) ==
    LET a == ColIndex(t, age_col)
    IN  IF HasColumn(t, "age_group")
        THEN LET g == ColIndex(t, "age_group")
             IN  [t EXCEPT
                    !.dtypes[g] = "category",
                    !.rows = [r \in DOMAIN t.rows |->
                                [t.rows[r] EXCEPT ![g] = Cut(t.rows[r][a])]]]
        ELSE [columns |-> Append(t.columns, "age_group"),
              dtypes  |-> Append(t.dtypes, "category"),
              rows    |-> [r \in DOMAIN t.rows |->
                            Append(t.rows[r], Cut(t.rows[r][a]))]]

\* groupby(['age_group', income_col])[hours_col].mean()
LineGraphAgg(t, income_col, hours_col) ==
    GroupMean(t, ColIndex(t, "age_group"), ColIndex(t, income_col),
              ColIndex(t, hours_col))

\* The hours of each income bracket handed to ax.hist, as a sorted list.
BracketRows(t, income_col, bracket) ==
    SelectSeq([r \in DOMAIN t.rows |-> r],
              LAMBDA r : t.rows[r][ColIndex(t, income_col)] = bracket)

HistogramAgg(t, income_col, hours_col) ==
    LET hours(bracket) ==
            LET rs == BracketRows(t, income_col, bracket)
            IN  Sort([k \in DOMAIN rs |->
                        t.rows[rs[k]][ColIndex(t, hours_col)]])
    IN  [low |-> hours("<=50K"), high |-> hours(">50K")]

\* The 'total' of an occupation: the mean over the income brackets of the
\* bracket means present, as a fraction <<numerator, denominator>>, or
\* <<0, 0>> when no bracket has a mean.
Total(means, occ) ==
    LET ks == {key \in DOMAIN means : key[1] = occ /\ means[key][2] > 0}
    IN  IF ks = {} THEN <<0, 0>>
        ELSE IF Cardinality(ks) = 1
        THEN LET k == CHOOSE k \in ks : TRUE IN means[k]
        ELSE LET k1 == CHOOSE k \in ks : TRUE
                 k2 == CHOOSE k \in ks : k # k1
             IN  <<means[k1][1] * means[k2][2] + means[k2][1] * means[k1][2],
                   2 * means[k1][2] * means[k2][2]>>

\* x sorts before y under sort_values('total', ascending=False): a larger
\* total first, a missing total last.
TotalBefore(x, y) ==
    IF x[2] = 0 THEN FALSE
    ELSE IF y[2] = 0 THEN TRUE
    ELSE x[1] * y[2] > y[1] * x[2]

RECURSIVE InsertByTotal(_, _, _)
InsertByTotal(means, occ, s) ==
    IF s = <<>> THEN <<occ>>
    ELSE IF TotalBefore(Total(means, occ), Total(means, Head(s)))
    THEN <<occ>> \o s
    ELSE <<Head(s)>> \o InsertByTotal(means, occ, Tail(s))

RECURSIVE SortByTotal(_, _)
SortByTotal(means, occs) ==
    IF occs = <<>> THEN <<>>
    ELSE InsertByTotal(means, Head(occs), SortByTotal(means, Tail(occs)))

\* groupby([occupation_col, income_col])[education_col].mean(), and the
\* occupations sorted by 'total', descending.
GroupedBarAgg(t, occupation_col, income_col, education_col) ==
    LET means == GroupMean(t, ColIndex(t, occupation_col),
                           ColIndex(t, income_col), ColIndex(t, education_col))
        occs == {key[1] : key \in DOMAIN means}
        listed == SelectSeq(Lexicographic, LAMBDA o : o \in occs)
    IN  [means |-> means, sorted |-> SortByTotal(means, listed)]

(***************************************************************************)
(* main() of question3.py.                                                 *)
(***************************************************************************)
Panels == <<"stacked_bar", "line_graph", "histogram", "grouped_bar">>

FileNotFoundLine == "Error: File 'adult.csv' not found."
LoadErrorLine == "Error loading data"
VisualizationErrorLine == "Error creating visualizations"
AnalysisFailedLine == "Analysis failed"
ErrorTitle == "Error: Could not create chart"

ChartTitle(p) ==
    CASE p = "stacked_bar" -> "Income Distribution by Gender"
      [] p = "line_graph"  -> "Average Weekly Hours Worked by Age Group and Income"
      [] p = "histogram"   -> "Distribution of Weekly Work Hours by Income Group"
      [] p = "grouped_bar" -> "Average Education Level by Occupation and Income Group"

ErrorLine(p) ==
    CASE p = "stacked_bar" -> "Error in stacked bar chart"
      [] p = "line_graph"  -> "Error in line graph"
      [] p = "histogram"   -> "Error in histogram"
      [] p = "grouped_bar" -> "Error in grouped bar chart"

\* Where create_visualizations goes after the renderer p returns.
AfterPanel(p) ==
    CASE p = "stacked_bar" -> "line_graph"
      [] p = "line_graph"  -> "histogram"
      [] p = "histogram"   -> "grouped_bar"
      [] p = "grouped_bar" -> "show"

NoAgg == <<>>
EmptyMapping == [name \in {} |-> name]
NoReport == [missing_before |-> 0, imputed |-> <<>>, removed |-> 0]

\* A variant of LoadRaises whose handler prints the line and swallows the
\* exception, so that main() goes on to create_visualizations.
LoadRaisesSwallowed(l, line) ==
    [log |-> Append(l, line), pc |-> "stacked_bar"]

\* An exception leaving the try block of load_and_clean_data: its handler
\* prints a line and re-raises, and the handler of main() prints the
\* diagnostic and returns.
LoadRaises(l, line) ==
    [log |-> l \o <<line, AnalysisFailedLine>>, pc |-> "done"]

\* A variant of PanelExcept without the renderer's own try/except: the
\* exception reaches the handler of create_visualizations and then main().
PanelExceptPropagates(p, l) ==
    [log |-> l \o <<VisualizationErrorLine, AnalysisFailedLine>>,
     title |-> "", pc |-> "done"]

\* The except clause of the renderer p: the error is printed, the axes get
\* the error title, and the renderer returns normally.
PanelExcept(p, l) ==
    [log |-> Append(l, ErrorLine(p)), title |-> ErrorTitle, pc |-> AfterPanel(p)]

\* The renderer p ran to its end.
PanelDone(p, l) ==
    [log |-> l, title |-> ChartTitle(p), pc |-> AfterPanel(p)]

Q2Idle ==
    /\ stream = <<>>
    /\ rng = 0
    /\ run = 0
    /\ fitness_levels = <<>>
    /\ step_counts = <<>>
    /\ i = 0
    /\ highest_participant = <<>>
    /\ lowest_participant = <<>>
    /\ outputs = <<>>

Init ==
    /\ file \in Files
    /\ pc = "main"
    /\ data = NoData
    /\ column_mapping = EmptyMapping
    /\ log = <<>>
    /\ report = NoReport
    /\ title = [p \in Range(Panels) |-> ""]
    /\ order = <<>>
    /\ agg = [p \in Range(Panels) |-> NoAgg]
    /\ cleaned = NoData
    /\ load_calls = 0
    /\ passes = 0
    /\ prev = NoData
    /\ Q2Idle

\* load_and_clean_data, up to pd.read_csv.
ReadCsv ==
    /\ pc = "main"
    /\ load_calls' = load_calls + 1
    /\ IF file.status = "ok"
       THEN /\ data' = file.table
            /\ log' = Append(log, "Original columns in dataset:")
            /\ pc' = "standardize"
       ELSE LET out == LoadRaises(log, IF file.status = "missing"
                                       THEN FileNotFoundLine ELSE LoadErrorLine)
            IN  /\ data' = data
                /\ log' = out.log
                /\ pc' = out.pc
    /\ UNCHANGED <<file, column_mapping, report, title, order, agg, cleaned,
                   passes, prev, q2vars>>

\* self.standardize_column_names() and the overview print.
Standardize ==
    /\ pc = "standardize"
    /\ column_mapping' = StandardizeColumnNames(data.columns)
    /\ log' = Append(log, "Dataset Overview:")
    /\ pc' = "missing"
    /\ UNCHANGED <<file, data, report, title, order, agg, cleaned, load_calls,
                   passes, prev, q2vars>>

\* self._handle_missing_values()
HandleMissing ==
    /\ pc = "missing"
    /\ LET res == HandleMissingValues(data)
           printed == Append(log, "Missing values ('?') found")
           out == LoadRaises(printed, LoadErrorLine)
       IN  /\ data' = res.data
           /\ report' = [report EXCEPT !.missing_before = res.missing_before,
                                       !.imputed = res.imputed]
           /\ log' = IF res.raised THEN out.log ELSE printed
           /\ pc' = IF res.raised THEN out.pc ELSE "dups"
    /\ UNCHANGED <<file, column_mapping, title, order, agg, cleaned, load_calls,
                   passes, prev, q2vars>>

\* self._remove_duplicates(), the info print and the return to main().
RemoveDuplicates ==
    /\ pc = "dups"
    /\ data' = DropDuplicates(data)
    /\ report' = [report EXCEPT
                    !.removed = DuplicatedCount(data) - DuplicatedCount(data')]
    /\ log' = log \o <<"Removed duplicate records", "Cleaned Dataset Info:">>
    /\ cleaned' = data'
    /\ pc' = "stacked_bar"
    /\ UNCHANGED <<file, column_mapping, title, order, agg, load_calls,
                   passes, prev, q2vars>>

\* A renderer returns: its result goes to the console and the axes.
PanelReturns(p, out, value) ==
    /\ order' = Append(order, p)
    /\ log' = out.log
    /\ title' = [title EXCEPT ![p] = out.title]
    /\ agg' = [agg EXCEPT ![p] = value]
    /\ pc' = out.pc

\* _create_stacked_bar_chart: plot_ok is whether the plotting calls after
\* the aggregation succeed.
StackedBar ==
    /\ pc = "stacked_bar"
    /\ \E plot_ok \in BOOLEAN :
        LET gender_col == GetColumnName(column_mapping, "sex")
            income_col == GetColumnName(column_mapping, "income")
            found == HasColumn(data, gender_col) /\ HasColumn(data, income_col)
        IN  IF found /\ plot_ok
            THEN PanelReturns("stacked_bar", PanelDone("stacked_bar", log),
                              StackedBarAgg(data, gender_col, income_col))
            ELSE PanelReturns("stacked_bar", PanelExcept("stacked_bar", log),
                              IF found
                              THEN StackedBarAgg(data, gender_col, income_col)
                              ELSE NoAgg)
    /\ UNCHANGED <<file, data, column_mapping, report, cleaned, load_calls,
                   passes, prev, q2vars>>

\* _create_line_graph: the age_group column is assigned before the groupby.
\* pd.cut bins a numeric age column; on an age column of another dtype (a
\* table without rows) it may raise, before the assignment.
LineGraph ==
    /\ pc = "line_graph"
    /\ \E plot_ok \in BOOLEAN, cut_ok \in BOOLEAN :
        LET age_col == GetColumnName(column_mapping, "age")
            income_col == GetColumnName(column_mapping, "income")
            hours_col == GetColumnName(column_mapping, "hours_per_week")
            binned == /\ HasColumn(data, age_col)
                      /\ \/ cut_ok
                         \/ data.dtypes[ColIndex(data, age_col)] = "number"
            grouped == IF binned THEN SetAgeGroup(data, age_col) ELSE data
            found == /\ binned
                     /\ HasColumn(data, income_col)
                     /\ HasColumn(data, hours_col)
        IN  /\ data' = grouped
            /\ IF found /\ plot_ok
               THEN PanelReturns("line_graph", PanelDone("line_graph", log),
                                 LineGraphAgg(grouped, income_col, hours_col))
               ELSE PanelReturns("line_graph", PanelExcept("line_graph", log),
                                 IF found
                                 THEN LineGraphAgg(grouped, income_col, hours_col)
                                 ELSE NoAgg)
    /\ UNCHANGED <<file, column_mapping, report, cleaned, load_calls,
                   passes, prev, q2vars>>

\* _create_histogram: the hours column is read only for a bracket that has
\* rows.
Histogram ==
    /\ pc = "histogram"
    /\ \E plot_ok \in BOOLEAN :
        LET income_col == GetColumnName(column_mapping, "income")
            hours_col == GetColumnName(column_mapping, "hours_per_week")
            found == /\ HasColumn(data, income_col)
                     /\ \/ HasColumn(data, hours_col)
                        \/ /\ BracketRows(data, income_col, "<=50K") = <<>>
                           /\ BracketRows(data, income_col, ">50K") = <<>>
        IN  IF found /\ plot_ok
            THEN PanelReturns("histogram", PanelDone("histogram", log),
                              HistogramAgg(data, income_col, hours_col))
            ELSE PanelReturns("histogram", PanelExcept("histogram", log),
                              IF found
                              THEN HistogramAgg(data, income_col, hours_col)
                              ELSE NoAgg)
    /\ UNCHANGED <<file, data, column_mapping, report, cleaned, load_calls,
                   passes, prev, q2vars>>

\* _create_grouped_bar_chart
GroupedBar ==
    /\ pc = "grouped_bar"
    /\ \E plot_ok \in BOOLEAN :
        LET occupation_col == GetColumnName(column_mapping, "occupation")
            income_col == GetColumnName(column_mapping, "income")
            education_col == GetColumnName(column_mapping, "education_num")
            found == /\ HasColumn(data, occupation_col)
                     /\ HasColumn(data, income_col)
                     /\ HasColumn(data, education_col)
            value == GroupedBarAgg(data, occupation_col, income_col,
                                   education_col)
        IN  IF found /\ plot_ok
            THEN PanelReturns("grouped_bar", PanelDone("grouped_bar", log), value)
            ELSE PanelReturns("grouped_bar", PanelExcept("grouped_bar", log),
                              IF found THEN value ELSE NoAgg)
    /\ UNCHANGED <<file, data, column_mapping, report, cleaned, load_calls,
                   passes, prev, q2vars>>

\* plt.tight_layout(), plt.show() and the return to main().
Show ==
    /\ pc = "show"
    /\ pc' = "done"
    /\ UNCHANGED <<file, data, column_mapping, log, report, title, order, agg,
                   cleaned, load_calls, passes, prev, q2vars>>

Next ==
    \/ ReadCsv
    \/ Standardize
    \/ HandleMissing
    \/ RemoveDuplicates
    \/ StackedBar
    \/ LineGraph
    \/ Histogram
    \/ GroupedBar
    \/ Show

Spec == Init /\ [][Next]_vars

(***************************************************************************)
(* SpecClean: _handle_missing_values followed by _remove_duplicates,       *)
(* applied to a table MaxPasses times in a row.                            *)
(***************************************************************************)
InitClean ==
    /\ file \in {f \in Files : f.status = "ok"}
    /\ pc = "clean_missing"
    /\ data = file.table
    /\ column_mapping = EmptyMapping
    /\ log = <<>>
    /\ report = NoReport
    /\ title = [p \in Range(Panels) |-> ""]
    /\ order = <<>>
    /\ agg = [p \in Range(Panels) |-> NoAgg]
    /\ cleaned = NoData
    /\ load_calls = 0
    /\ passes = 0
    /\ prev = NoData
    /\ Q2Idle

CleanHandleMissing ==
    /\ pc = "clean_missing"
    /\ passes < MaxPasses
    /\ LET res == HandleMissingValues(data)
       IN  /\ prev' = data
           /\ data' = res.data
           /\ report' = [report EXCEPT !.missing_before = res.missing_before,
                                       !.imputed = res.imputed]
           /\ pc' = IF res.raised THEN "clean_raised" ELSE "clean_dups"
    /\ UNCHANGED <<file, column_mapping, log, title, order, agg, cleaned,
                   load_calls, passes, q2vars>>

CleanRemoveDuplicates ==
    /\ pc = "clean_dups"
    /\ data' = DropDuplicates(data)
    /\ report' = [report EXCEPT
                    !.removed = DuplicatedCount(data) - DuplicatedCount(data')]
    /\ passes' = passes + 1
    /\ pc' = "clean_missing"
    /\ UNCHANGED <<file, column_mapping, log, title, order, agg, cleaned,
                   load_calls, prev, q2vars>>

NextClean ==
    \/ CleanHandleMissing
    \/ CleanRemoveDuplicates

SpecClean == InitClean /\ [][NextClean]_vars

(***************************************************************************)
(* Properties of question3.py.                                             *)
(***************************************************************************)
\* load_and_clean_data has returned to main() without raising.
LoadReturned == cleaned # NoData

NoMissingCategorical(t) ==
    \A j \in DOMAIN t.columns : \A r \in DOMAIN t.rows :
        t.dtypes[j] = "object" => t.rows[r][j] \notin {QMark, NA}

NoNullNumeric(t) ==
    \A j \in DOMAIN t.columns : \A r \in DOMAIN t.rows :
        t.dtypes[j] = "number" => ~IsNaN(t.rows[r][j])

NoEqualRows(t) ==
    \A q, r \in DOMAIN t.rows : q # r => t.rows[q] # t.rows[r]

\* C1: once load_and_clean_data has returned successfully, no object column
\* of the cleaned table holds '?' or a null, no numeric column holds a null,
\* and no two rows are equal.
C1_CleanedTableInvariant ==
    LoadReturned =>
        /\ NoMissingCategorical(cleaned)
        /\ NoNullNumeric(cleaned)
        /\ NoEqualRows(cleaned)

\* The standardized names the four renderers look up.
ExpectedColumns ==
    {"age", "sex", "income", "occupation", "education_num", "hours_per_week"}

\* The column the renderers use for the standardized name c is not in the
\* cleaned table.
Absent(c) == ~HasColumn(cleaned, GetColumnName(column_mapping, c))

\* The standardized names the renderer p looks up whatever the rows are.
Required(p) ==
    CASE p = "stacked_bar" -> {"sex", "income"}
      [] p = "line_graph"  -> {"age", "income", "hours_per_week"}
      [] p = "histogram"   -> {"income"}
      [] p = "grouped_bar" -> {"occupation", "income", "education_num"}

\* C2: the renderers are invoked in the fixed order stacked bar, line graph,
\* histogram, grouped bar; a renderer that fails prints its error line and
\* sets the error title, every renderer is still invoked and leaves either
\* its chart title or the error title, and no failure of a panel leaves
\* create_visualizations or makes main() report a failed analysis.
C2_PanelIsolation ==
    /\ order = SubSeq(Panels, 1, Len(order))
    /\ VisualizationErrorLine \notin Range(log)
    /\ LoadReturned => AnalysisFailedLine \notin Range(log)
    /\ (LoadReturned /\ pc \in {"show", "done"}) => order = Panels
    /\ \A k \in DOMAIN order :
        LET p == order[k]
        IN  /\ title[p] \in {ChartTitle(p), ErrorTitle}
            /\ title[p] = ErrorTitle <=> ErrorLine(p) \in Range(log)
            /\ (\E c \in Required(p) : Absent(c)) => title[p] = ErrorTitle

\* C2 witness: the run ended with the first and third panel failed and the
\* second and fourth rendered.
C2_Witness ==
    /\ pc = "done"
    /\ title["stacked_bar"] = ErrorTitle
    /\ title["line_graph"] = ChartTitle("line_graph")
    /\ title["histogram"] = ErrorTitle
    /\ title["grouped_bar"] = ChartTitle("grouped_bar")

\* C3: when a column the analysis expects is absent from the table after
\* normalization, the run ends aborted: main() reports the failed analysis.
C3_SchemaMismatchIsFatal ==
    (pc = "done" /\ LoadReturned /\ \E c \in ExpectedColumns : Absent(c))
        => AnalysisFailedLine \in Range(log)

\* load_and_clean_data raises on this file: it is missing or unparsable, or
\* the imputation raises on its table.
LoadMustFail ==
    file.status # "ok" \/ HandleMissingValues(file.table).raised

\* C4: a panel is rendered only after load_and_clean_data returned without
\* error; when it raises, its error line and then the diagnostic of main()
\* are printed, the run ends, and no panel is ever invoked; the load is
\* attempted once.
C4_LoadAllOrAbort ==
    /\ load_calls <= 1
    /\ (order # <<>> \/ pc \in Range(Panels) \union {"show"})
        => (LoadReturned /\ ~LoadMustFail)
    /\ LoadMustFail =>
        /\ ~LoadReturned
        /\ order = <<>>
        /\ \A p \in Range(Panels) : title[p] = "" /\ agg[p] = NoAgg
    /\ (LoadMustFail /\ pc = "done") =>
        /\ Len(log) >= 2
        /\ log[Len(log)] = AnalysisFailedLine
        /\ log[Len(log) - 1] = IF file.status = "missing"
                               THEN FileNotFoundLine ELSE LoadErrorLine
    /\ ~LoadMustFail =>
        Range(log) \cap {FileNotFoundLine, LoadErrorLine, AnalysisFailedLine} = {}

\* C4 witness: the file was read, the imputation raised, and the run ended.
C4_Witness ==
    /\ pc = "done"
    /\ file.status = "ok"
    /\ LoadMustFail
    /\ LoadErrorLine \in Range(log)

\* C5: cleaning a table that the two cleaning steps already produced finds
\* no '?', imputes no column, removes no duplicate and leaves the table as
\* it was.
C5_CleaningIdempotent ==
    (pc = "clean_missing" /\ passes >= 2) =>
        /\ report = NoReport
        /\ data = prev

\* Names looked up that may have no mapping.
ProbeNames == ExpectedColumns \union {"workclass", "age_group"}

\* C6: once standardize_column_names has run, a standardized name of which
\* some variant is a header resolves to a variant that is a header of the
\* table, whichever spelling the table uses; a header that is no recognised
\* variant is mapped to itself; a name without mapping resolves to itself.
C6_ColumnResolution ==
    (file.status = "ok" /\ pc \notin {"main", "standardize"}) =>
        LET headers == Range(file.table.columns)
        IN  /\ \A c \in DOMAIN possible_names :
                Range(possible_names[c]) \cap headers # {} =>
                    GetColumnName(column_mapping, c)
                        \in Range(possible_names[c]) \cap headers
            /\ \A h \in headers \ AllVariants :
                /\ h \in DOMAIN column_mapping
                /\ column_mapping[h] = h
            /\ \A n \in ProbeNames \ DOMAIN column_mapping :
                GetColumnName(column_mapping, n) = n
            /\ DOMAIN column_mapping \subseteq DOMAIN possible_names \union headers

\* C6 witness: a table whose headers use the dot spelling has been
\* standardized, and a name without mapping exists.
C6_Witness ==
    /\ pc = "missing"
    /\ "hours.per.week" \in Range(data.columns)
    /\ GetColumnName(column_mapping, "hours_per_week") = "hours.per.week"
    /\ GetColumnName(column_mapping, "education_num") = "education.num"
    /\ "workclass" \notin DOMAIN column_mapping

\* Column j of the cleaned table is still what it was.
ColumnUnchanged(j) ==
    /\ data.columns[j] = cleaned.columns[j]
    /\ data.dtypes[j] = cleaned.dtypes[j]
    /\ \A r \in DOMAIN cleaned.rows : data.rows[r][j] = cleaned.rows[r][j]

\* The aggregation of the renderer p computed on the table that
\* load_and_clean_data returned.
ExpectedAgg(p) ==
    LET name(c) == GetColumnName(column_mapping, c)
    IN  CASE p = "stacked_bar" ->
                StackedBarAgg(cleaned, name("sex"), name("income"))
          [] p = "line_graph" ->
                LineGraphAgg(SetAgeGroup(cleaned, name("age")),
                             name("income"), name("hours_per_week"))
          [] p = "histogram" ->
                HistogramAgg(cleaned, name("income"), name("hours_per_week"))
          [] p = "grouped_bar" ->
                GroupedBarAgg(cleaned, name("occupation"), name("income"),
                              name("education_num"))

\* C10 as stated: the renderers leave the rows and every original column of
\* the cleaned table unchanged.
C10_OriginalColumnsUnchanged ==
    LoadReturned =>
        /\ Len(data.rows) = Len(cleaned.rows)
        /\ \A j \in DOMAIN cleaned.columns : ColumnUnchanged(j)

\* C10 amended: the renderers leave the rows and every original column not
\* named age_group unchanged; the only change is the age_group column that
\* _create_line_graph sets (added, or replacing an input column of that
\* name); and every aggregation a renderer computes equals the one computed
\* on the table load_and_clean_data returned, whatever the earlier panels
\* did.
C10_RenderersFrame ==
    LoadReturned =>
        /\ Len(data.rows) = Len(cleaned.rows)
        /\ \A j \in DOMAIN cleaned.columns :
            cleaned.columns[j] # "age_group" => ColumnUnchanged(j)
        /\ \/ data.columns = cleaned.columns
           \/ data.columns = Append(cleaned.columns, "age_group")
        /\ data # cleaned => "line_graph" \in Range(order)
        /\ \A k \in DOMAIN order :
            (\A c \in Required(order[k]) : ~Absent(c))
                => agg[order[k]] = ExpectedAgg(order[k])

\* C10 witness: on a table that came with an age_group column, the stacked
\* bar failed, the line graph replaced that column, and the last two panels
\* were rendered.
C10_Witness ==
    /\ pc = "done"
    /\ HasColumn(cleaned, "age_group")
    /\ cleaned.rows # <<>>
    /\ data # cleaned
    /\ title["stacked_bar"] = ErrorTitle
    /\ title["histogram"] = ChartTitle("histogram")
    /\ title["grouped_bar"] = ChartTitle("grouped_bar")

(***************************************************************************)
(* Question2.py.  The global generator is a position rng in the stream of  *)
(* draws that the seed fixes; the stream is not known in advance, so a     *)
(* draw past the part already seen is any member of Draws and is then      *)
(* remembered.  A draw first consumed by np.random.choice is one of        *)
(* ChoiceDraws and stands for a level; a draw first consumed by            *)
(* np.random.normal is one of NormalDraws and stands for a standard normal *)
(* deviate in thousandths (ZMilli): -6.001 and +9.001, which between them  *)
(* reach both clamps, both directions of a rounded half and plain          *)
(* rounding across the three levels.  Either call can consume a draw that  *)
(* the other consumed first (the draw 3 stands for the deviate +0.001).    *)
(***************************************************************************)
ChoiceDraws == {1, 2, 3}
NormalDraws == {1, 2}
ZMilli == <<-6001, 9001, 1>>

MinSteps == 3000
MaxSteps == 15000

fitness_params ==
    [level \in {0, 1, 2} |->
        CASE level = 0 -> [mean |-> 6000, std |-> 600]
          [] level = 1 -> [mean |-> 7500, std |-> 500]
          [] level = 2 -> [mean |-> 9000, std |-> 700]]

\* np.random.choice([0, 1, 2]) on one draw.
Choice(u) == u % 3

\* np.random.normal(loc=mean, scale=std) on one draw, in tenths of a step.
NormalTenths(level, u) ==
    10 * fitness_params[level].mean
        + (fitness_params[level].std \div 100) * ZMilli[u]

\* np.round(x).astype(int) of a value given in tenths: to the nearest
\* integer, a half to the even neighbour.
Round(tenths) ==
    LET q == tenths \div 10
        r == tenths % 10
    IN  IF r < 5 THEN q
        ELSE IF r > 5 THEN q + 1
        ELSE IF q % 2 = 0 THEN q ELSE q + 1

\* A variant of Clip that bounds the value from above only.
ClipUpperOnly(x) == IF x > MaxSteps THEN MaxSteps ELSE x

\* np.clip(x, 3000, 15000)
Clip(x) ==
    IF x < MinSteps THEN MinSteps ELSE IF x > MaxSteps THEN MaxSteps ELSE x

\* One entry of the table from the participant's level and one draw.
Steps(level, u) == Clip(Round(NormalTenths(level, u)))

\* A variant of Reseed that leaves the global generator where it is.
ReseedKeeps(position) == position

\* np.random.seed(42): the generator is put at the start of the stream.
Reseed(position) == 0

\* DataFrame.median(axis=1) of one participant, in half steps.
MedianDaily(row) == Median([d \in DOMAIN row |-> Num(row[d])])

\* median_daily_steps = step_counts_df.median(axis=1)
MedianDailySteps(table) == [p \in DOMAIN table |-> MedianDaily(table[p])]

\* Series.max() and Series.min()
SeriesMax(series) ==
    CHOOSE m \in Range(series) : \A p \in DOMAIN series : series[p] <= m
SeriesMin(series) ==
    CHOOSE m \in Range(series) : \A p \in DOMAIN series : m <= series[p]

\* A variant of IndexAt that gives only the first participant holding the
\* value (as idxmax / idxmin would).
IndexAtFirstOnly(series, value) ==
    <<CHOOSE p \in DOMAIN series :
        /\ series[p] = value
        /\ \A q \in DOMAIN series : series[q] = value => p <= q>>

\* series[series == value].index.tolist(): the participants holding the
\* value, in index order.
IndexAt(series, value) ==
    SelectSeq([p \in DOMAIN series |-> p], LAMBDA p : series[p] = value)

Q3Idle ==
    /\ file = [status |-> "missing", table |-> NoData]
    /\ data = NoData
    /\ column_mapping = EmptyMapping
    /\ log = <<>>
    /\ report = NoReport
    /\ title = [p \in Range(Panels) |-> ""]
    /\ order = <<>>
    /\ agg = [p \in Range(Panels) |-> NoAgg]
    /\ cleaned = NoData
    /\ load_calls = 0
    /\ passes = 0
    /\ prev = NoData

InitSteps ==
    /\ Q3Idle
    /\ pc = "seed"
    /\ run = 1
    /\ stream = <<>>
    /\ rng = 0
    /\ fitness_levels = <<>>
    /\ step_counts = <<>>
    /\ i = 0
    /\ highest_participant = <<>>
    /\ lowest_participant = <<>>
    /\ outputs = <<>>

\* The generator yields its next n draws: the stream grows by the draws not
\* seen before, and the position moves past the n draws.
Take(n, Fresh) ==
    /\ \E fresh \in [1..(IF rng + n > Len(stream)
                         THEN rng + n - Len(stream) ELSE 0) -> Fresh] :
        stream' = stream \o fresh
    /\ rng' = rng + n

\* The k-th draw of the call that is consuming draws.
Drawn(k) == stream'[rng + k]

\* np.random.seed(42)
SeedGenerator ==
    /\ pc = "seed"
    /\ rng' = Reseed(rng)
    /\ pc' = "fitness"
    /\ UNCHANGED <<q3vars_but_pc, stream, run, fitness_levels, step_counts, i,
                   highest_participant, lowest_participant, outputs>>

\* fitness_levels = np.random.choice(...); step_counts = np.zeros(...)
AssignFitness ==
    /\ pc = "fitness"
    /\ Take(num_participants, ChoiceDraws)
    /\ fitness_levels' = [k \in 1..num_participants |-> Choice(Drawn(k))]
    /\ step_counts' = [p \in 1..num_participants |-> [d \in 1..num_days |-> 0]]
    /\ i' = 1
    /\ pc' = "generate"
    /\ UNCHANGED <<q3vars_but_pc, run, highest_participant, lowest_participant,
                   outputs>>

\* One iteration of the generation loop: the row of participant i.
GenerateSteps ==
    /\ pc = "generate"
    /\ i <= num_participants
    /\ Take(num_days, NormalDraws)
    /\ step_counts' = [step_counts EXCEPT ![i] =
            [d \in 1..num_days |-> Steps(fitness_levels[i], Drawn(d))]]
    /\ i' = i + 1
    /\ pc' = IF i = num_participants THEN "analysis" ELSE "generate"
    /\ UNCHANGED <<q3vars_but_pc, run, fitness_levels, highest_participant,
                   lowest_participant, outputs>>

\* Part 2 (c): the median lists; the run ends, and a second run of the
\* script follows the first.
Analyse ==
    /\ pc = "analysis"
    /\ LET median_daily_steps == MedianDailySteps(step_counts)
       IN  /\ highest_participant' =
                IndexAt(median_daily_steps, SeriesMax(median_daily_steps))
           /\ lowest_participant' =
                IndexAt(median_daily_steps, SeriesMin(median_daily_steps))
    /\ outputs' = Append(outputs,
            [fitness_levels |-> fitness_levels,
             step_counts |-> step_counts,
             highest_participant |-> highest_participant',
             lowest_participant |-> lowest_participant'])
    /\ run' = IF run = 1 THEN 2 ELSE run
    /\ pc' = IF run = 1 THEN "seed" ELSE "done"
    /\ UNCHANGED <<q3vars_but_pc, stream, rng, fitness_levels, step_counts, i>>

NextSteps ==
    \/ SeedGenerator
    \/ AssignFitness
    \/ GenerateSteps
    \/ Analyse

SpecSteps == InitSteps /\ [][NextSteps]_vars

(***************************************************************************)
(* Properties of Question2.py.                                             *)
(***************************************************************************)
\* The rows of step_counts the generation loop has filled.
Generated ==
    IF pc = "generate" THEN 1..(i - 1) ELSE DOMAIN step_counts

\* C7: every generated entry of the step-count table lies in [3000, 15000],
\* for every participant and day, whatever the level and the draw.
C7_StepsInRange ==
    /\ \A p \in Generated : \A d \in DOMAIN step_counts[p] :
        MinSteps <= step_counts[p][d] /\ step_counts[p][d] <= MaxSteps
    /\ \A k \in DOMAIN outputs :
        \A p \in DOMAIN outputs[k].step_counts :
            \A d \in DOMAIN outputs[k].step_counts[p] :
                /\ MinSteps <= outputs[k].step_counts[p][d]
                /\ outputs[k].step_counts[p][d] <= MaxSteps

\* C7 witness: a finished table holds an entry clamped at each end and an
\* entry strictly inside the range.
C7_Witness ==
    /\ pc = "analysis"
    /\ \E p \in DOMAIN step_counts : \E d \in DOMAIN step_counts[p] :
        /\ step_counts[p][d] = MinSteps
        /\ NormalTenths(fitness_levels[p],
                        stream[num_participants + (p - 1) * num_days + d])
              < 10 * MinSteps
    /\ \E p \in DOMAIN step_counts : \E d \in DOMAIN step_counts[p] :
        step_counts[p][d] = MaxSteps
    /\ \E p \in DOMAIN step_counts : \E d \in DOMAIN step_counts[p] :
        MinSteps < step_counts[p][d] /\ step_counts[p][d] < MaxSteps

\* C8: every run started from the seed prints the same fitness levels and
\* the same table, and they are the function of the seed's stream that
\* takes the levels from its first num_participants draws and the rows, in
\* participant order, from the draws that follow.
C8_Deterministic ==
    /\ \A a, b \in DOMAIN outputs : outputs[a] = outputs[b]
    /\ \A k \in DOMAIN outputs :
        /\ \A p \in 1..num_participants :
            outputs[k].fitness_levels[p] = Choice(stream[p])
        /\ \A p \in 1..num_participants : \A d \in 1..num_days :
            outputs[k].step_counts[p][d] =
                Steps(outputs[k].fitness_levels[p],
                      stream[num_participants + (p - 1) * num_days + d])

\* C8 witness: two runs have finished, on a stream that gives the
\* participants different levels and rows.
C8_Witness ==
    /\ pc = "done"
    /\ Len(outputs) = 2
    /\ outputs[1].fitness_levels[1] # outputs[1].fitness_levels[2]
    /\ outputs[2].step_counts[1] # outputs[2].step_counts[2]

\* C9: the participants listed for the highest median are exactly those
\* whose median is the maximum of the table, those listed for the lowest
\* exactly those whose median is the minimum, each once and in table order.
C9_MedianExtremes ==
    \A k \in DOMAIN outputs :
        LET o == outputs[k]
            med(p) == MedianDaily(o.step_counts[p])
            all == DOMAIN o.step_counts
            listed(s) == /\ \A x, y \in DOMAIN s : x < y => s[x] < s[y]
        IN  /\ Range(o.highest_participant) =
                {p \in all : \A q \in all : med(q) <= med(p)}
            /\ Range(o.lowest_participant) =
                {p \in all : \A q \in all : med(p) <= med(q)}
            /\ listed(o.highest_participant)
            /\ listed(o.lowest_participant)

\* C9 witness: a run listed two participants tied at the highest median,
\* whose rows differ.
C9_Witness ==
    \E k \in DOMAIN outputs :
        /\ Len(outputs[k].highest_participant) >= 2
        /\ outputs[k].step_counts[outputs[k].highest_participant[1]]
            # outputs[k].step_counts[outputs[k].highest_participant[2]]

====
